---- MODULE Spec2Model ----
(***************************************************************************)
(* Model of the Backtest-Simple pipeline:                                  *)
(*   strategy.sma_crossover_signal -> backtester.Backtester(...).run()     *)
(*   -> metrics.summarize.                                                 *)
(*                                                                         *)
(* A pandas Series is a function from its index (a set of day numbers) to  *)
(* its values; positional neighbours are found through the date order.     *)
(* Floating point values are exact rationals <<n, d>> (d > 0, lowest       *)
(* terms); NaN is <<0, 0>>, +inf is <<1, 0>>, -inf is <<-1, 0>>.           *)
(* IEEE rounding is not modelled.                                          *)
(***************************************************************************)
EXTENDS Integers, FiniteSets, Sequences, TLC

VARIABLES pc, err, prices, positions, rf, cost_bps, call, bt, result, metrics

vars == <<pc, err, prices, positions, rf, cost_bps, call, bt, result, metrics>>

(***************************************************************************)
(* Bounds of the model.                                                    *)
(***************************************************************************)
NDates == 3
MaxWindow == 2
MaxNavLen == 3

Dates == 1..NDates
Windows == (-1)..MaxWindow

(***************************************************************************)
(* Exact rational arithmetic.                                              *)
(***************************************************************************)
Abs(n) == IF n < 0 THEN -n ELSE n

Sgn(n) == IF n < 0 THEN -1 ELSE IF n = 0 THEN 0 ELSE 1

RECURSIVE GCD(_, _)
GCD(a, b) == IF b = 0 THEN a ELSE GCD(b, a % b)

Norm(n, d) ==
    LET g == GCD(Abs(n), Abs(d))
    IN  <<Sgn(d) * (n \div g), Abs(d) \div g>>

R(n) == <<n, 1>>
NaN == <<0, 0>>
PosInf == <<1, 0>>
NegInf == <<-1, 0>>

IsNaN(x) == x = NaN
IsFinite(x) == x[2] # 0

RNeg(x) == <<-x[1], x[2]>>

RAdd(x, y) ==
    LET g == GCD(x[2], y[2])
    IN  Norm(x[1] * (y[2] \div g) + y[1] * (x[2] \div g), (x[2] \div g) * y[2])

RSub(x, y) == RAdd(x, RNeg(y))

RMul(x, y) ==
    LET g1 == GCD(Abs(x[1]), y[2])
        g2 == GCD(Abs(y[1]), x[2])
    IN  <<(x[1] \div g1) * (y[1] \div g2), (x[2] \div g2) * (y[2] \div g1)>>

RDiv(x, y) == RMul(x, Norm(y[2], y[1]))

(* Sign of a/b - c/d for b, d > 0, by the continued fraction expansion. *)
RECURSIVE CmpFrac(_, _, _, _)
CmpFrac(a, b, c, d) ==
    LET qa == a \div b
        qc == c \div d
        ra == a % b
        rc == c % d
    IN  IF qa # qc THEN Sgn(qa - qc)
        ELSE IF ra = 0 \/ rc = 0 THEN Sgn(ra - rc)
        ELSE CmpFrac(d, rc, b, ra)

RCmp(x, y) == CmpFrac(x[1], x[2], y[1], y[2])
RLe(x, y) == RCmp(x, y) <= 0
RLt(x, y) == RCmp(x, y) < 0

(***************************************************************************)
(* pandas objects.                                                         *)
(***************************************************************************)
None == [kind |-> "None"]
NotASeries == [kind |-> "NotASeries"]
Series(f) == [kind |-> "Series", v |-> f]

isinstance_Series(x) == x.kind = "Series"

Min(S) == CHOOSE d \in S : \A e \in S : d <= e
Max(S) == CHOOSE d \in S : \A e \in S : e <= d

(* The label just before d in the ordered index idx. *)
Prev(idx, d) == Max({e \in idx : e < d})

(* s.loc[idx] *)
loc(s, idx) == [d \in idx |-> s[d]]

(* s.fillna(value) *)
fillna(s, value) == [d \in DOMAIN s |-> IF IsNaN(s[d]) THEN value ELSE s[d]]

(* s.diff(): NaN at the first label. *)
diff(s) ==
    [d \in DOMAIN s |->
        IF d = Min(DOMAIN s) THEN NaN ELSE RSub(R(s[d]), R(s[Prev(DOMAIN s, d)]))]

(* s.pct_change() of a series of positive numbers: NaN at the first label. *)
pct_change(s) ==
    [d \in DOMAIN s |->
        IF d = Min(DOMAIN s) THEN NaN
        ELSE RSub(RDiv(R(s[d]), R(s[Prev(DOMAIN s, d)])), R(1))]

(* NaN-propagating elementwise arithmetic. *)
NMul(x, y) == IF IsNaN(x) \/ IsNaN(y) THEN NaN ELSE RMul(x, y)
NAbs(x) == IF IsNaN(x) THEN NaN ELSE <<Abs(x[1]), x[2]>>

(* s.fillna(method='ffill'): each NaN takes the last defined value before it. *)
ffill(s) ==
    [d \in DOMAIN s |->
        LET known == {e \in DOMAIN s : e <= d /\ ~IsNaN(s[e])}
        IN  IF known = {} THEN NaN ELSE s[Max(known)]]

(* s.astype(int) of whole-valued floats. *)
astype_int(s) == [d \in DOMAIN s |-> s[d][1] \div s[d][2]]

(***************************************************************************)
(* backtester.py: Backtester                                               *)
(***************************************************************************)
BacktestResult(e, p, t) ==
    [kind |-> "BacktestResult", equity_curve |-> e, positions |-> p, trades |-> t]

(* common_idx of _align_data: op, oq are the original prices and positions *)
(* (index -> value), orf is None or Series(original rf).                   *)
(* Bug: the last common date is lost. *)
common_idx_drop_last(op, oq, orf) ==
    LET pq == DOMAIN op \cap DOMAIN oq
        all == IF orf.kind # "None" THEN pq \cap DOMAIN orf.v ELSE pq
    IN  {d \in all : \E e \in all : d < e}

common_idx(op, oq, orf) ==
    LET pq == DOMAIN op \cap DOMAIN oq
    IN  IF orf.kind # "None" THEN pq \cap DOMAIN orf.v ELSE pq

(* Backtester._align_data: the three aligned attributes. *)
align_data(op, oq, orf, c) ==
    LET idx == common_idx(op, oq, orf)
    IN  [kind |-> "Backtester",
         prices |-> loc(op, idx),
         positions |-> loc(oq, idx),
         rf |-> IF orf.kind # "None" THEN Series(loc(orf.v, idx)) ELSE None,
         cost_bps |-> c]

(* Bug: the round-trip rate is charged on every transition. *)
one_way_cost_rate_not_halved(c) == RDiv(R(c), R(10000))

one_way_cost_rate(c) == RDiv(RDiv(R(c), R(2)), R(10000))

(* transaction_costs_pct after fillna(0.0) *)
transaction_costs_pct(b) ==
    LET trades_ts == diff(b.positions)
    IN  fillna([d \in DOMAIN trades_ts |->
                   NMul(NAbs(trades_ts[d]), one_way_cost_rate(b.cost_bps))],
               R(0))

daily_rf_rate(x) == RDiv(RDiv(R(x), R(100)), R(365))

rf_component_returns(b) ==
    IF b.rf.kind # "None"
    THEN [d \in DOMAIN b.prices |->
             RMul(RSub(R(1), R(b.positions[d])), daily_rf_rate(b.rf.v[d]))]
    ELSE [d \in DOMAIN b.prices |-> R(0)]

(* Bug: the asset return is earned whatever the position. *)
gross_daily_returns_always_invested(b) ==
    LET asset_returns == pct_change(b.prices)
        act == fillna(asset_returns, R(0))
        rfc == fillna(rf_component_returns(b), R(0))
    IN  [d \in DOMAIN b.prices |-> RAdd(act[d], rfc[d])]

gross_daily_returns(b) ==
    LET asset_returns == pct_change(b.prices)
        active_asset_returns ==
            [d \in DOMAIN b.prices |-> NMul(R(b.positions[d]), asset_returns[d])]
        act == fillna(active_asset_returns, R(0))
        rfc == fillna(rf_component_returns(b), R(0))
    IN  [d \in DOMAIN b.prices |-> RAdd(act[d], rfc[d])]

(* Bug: the cost is added to the return. *)
net_daily_returns_cost_added(b) ==
    LET gross == gross_daily_returns(b)
        costs == transaction_costs_pct(b)
    IN  [d \in DOMAIN b.prices |-> RAdd(gross[d], costs[d])]

net_daily_returns(b) ==
    LET gross == gross_daily_returns(b)
        costs == transaction_costs_pct(b)
    IN  [d \in DOMAIN b.prices |-> RSub(gross[d], costs[d])]

(* The NAV loop: iloc[0] = 1.0, then one step per date in increasing order. *)
nav_loop(idx, net) ==
    LET eq[d \in idx] ==
            IF d = Min(idx) THEN R(1)
            ELSE RMul(eq[Prev(idx, d)], RAdd(R(1), net[d]))
    IN  ffill(eq)

(* Bug: the first day's difference is taken against a flat position. *)
final_trades_from_flat(b) ==
    [d \in DOMAIN b.positions |->
        IF d = Min(DOMAIN b.positions) THEN b.positions[d]
        ELSE b.positions[d] - b.positions[Prev(DOMAIN b.positions, d)]]

final_trades(b) == astype_int(fillna(diff(b.positions), R(0)))

(* Bug: an empty aligned index is rejected. *)
run_rejects_empty(b) ==
    IF DOMAIN b.prices = {}
    THEN [kind |-> "Raise", exc |-> "ValueError"]
    ELSE BacktestResult(nav_loop(DOMAIN b.prices, net_daily_returns(b)),
                        b.positions,
                        final_trades(b))

(* Backtester.run *)
run(b) ==
    IF DOMAIN b.prices = {}
    THEN BacktestResult(<<>>, <<>>, <<>>)
    ELSE BacktestResult(nav_loop(DOMAIN b.prices, net_daily_returns(b)),
                        b.positions,
                        final_trades(b))

(***************************************************************************)
(* metrics.py: summarize                                                   *)
(*                                                                         *)
(* Two results are not rational and are kept in symbolic form:             *)
(*  - a log return ln(q) is represented by its argument q (0 for -inf,     *)
(*    PosInf for +inf); its mean is zero iff the product of the arguments  *)
(*    is 1; arguments whose rational parts differ are further apart than   *)
(*    the 1e-9 limit on the deviation;                                     *)
(*  - CAGR (r ^ (1/years) - 1) * 100 is represented by r and the days.     *)
(*                                                                         *)
(* A NAV may carry a third component k: <<n, d, k>> is (n/d) * (1+1e-10)^k,*)
(* a value that differs from n/d by far less than the 1e-9 limits of       *)
(* summarize.  Its log is ln(n/d) + k * ln(1 + 1e-10), with                *)
(* ln(1 + 1e-10) taken as 1e-10 when it is compared with the 1e-9 limit.   *)
(***************************************************************************)
(* 1e-9 / 1e-10: the std limit of summarize in steps of the tiny log. *)
TinyStepsPerLimit == 10

Tiny(x) == IF Len(x) = 3 THEN x[3] ELSE 0
Base(x) == <<x[1], x[2]>>
WithTiny(b, k) == IF k = 0 \/ b[1] = 0 \/ b[2] = 0 THEN b ELSE <<b[1], b[2], k>>

(* Sign of x - y for finite x, y. *)
PCmp(x, y) ==
    LET c == RCmp(Base(x), Base(y))
    IN  IF c # 0 THEN c ELSE Sgn(x[1]) * Sgn(Tiny(x) - Tiny(y))
PLe(x, y) == PCmp(x, y) <= 0
PLt(x, y) == PCmp(x, y) < 0

(* A metric value known up to a term of the order of 1e-10. *)
Approx(x) == [present |-> TRUE, exact |-> FALSE, val |-> x, days |-> 0]
Absent == [present |-> FALSE, exact |-> FALSE, val |-> NaN, days |-> 0]
Exactly(x) == [present |-> TRUE, exact |-> TRUE, val |-> x, days |-> 0]
(* sqrt(252) * mean / std with std > 1e-9: known by its sign. *)
SharpeOfSign(sg) == [present |-> TRUE, exact |-> FALSE, val |-> R(sg), days |-> 0]
(* (r ^ (365.25 / days) - 1) * 100 *)
CagrOf(r, days) == [present |-> TRUE, exact |-> FALSE, val |-> r, days |-> days]

RECURSIVE SumAbs(_, _)
SumAbs(s, idx) ==
    IF idx = {} THEN 0
    ELSE LET d == Min(idx) IN Abs(s[d]) + SumAbs(s, idx \ {d})

(* x / y as numpy computes it: 0/0 is NaN, x/0 is +-inf. *)
np_div(x, y) ==
    IF y[1] # 0 THEN WithTiny(RDiv(Base(x), Base(y)), Tiny(x) - Tiny(y))
    ELSE IF x[1] = 0 THEN NaN ELSE IF x[1] > 0 THEN PosInf ELSE NegInf

(* nav / nav.shift(1): NaN at the first label. *)
nav_ratio(nav) ==
    [d \in DOMAIN nav |->
        IF d = Min(DOMAIN nav) THEN NaN ELSE np_div(nav[d], nav[Prev(DOMAIN nav, d)])]

(* Turnover (%), lines 39-43 and 99-101. *)
metric_turnover(trades) ==
    IF DOMAIN trades # {}
    THEN Exactly(RMul(RDiv(R(SumAbs(trades, DOMAIN trades)),
                           R(Cardinality(DOMAIN trades))), R(100)))
    ELSE Absent

metric_cagr(nav) ==
    LET start_date == Min(DOMAIN nav)
        end_date == Max(DOMAIN nav)
        num_years == RDiv(R(end_date - start_date), <<1461, 4>>)
        start_nav == nav[start_date]
        end_nav == nav[end_date]
    IN  IF ~IsNaN(start_nav) /\ ~IsNaN(end_nav) /\ start_nav[1] # 0
           /\ RLt(<<1, 1000000>>, num_years)
           /\ np_div(end_nav, start_nav)[1] >= 0
        THEN CagrOf(np_div(end_nav, start_nav), end_date - start_date)
        ELSE Absent

(* The arguments q of the log returns that survive dropna(): ln of a       *)
(* negative number, of -inf or of NaN is NaN.                              *)
log_rets(nav) ==
    LET q == nav_ratio(nav)
        kept == {d \in DOMAIN nav : ~IsNaN(q[d]) /\ q[d][1] >= 0}
    IN  loc(q, kept)

RECURSIVE Product(_, _)
Product(s, idx) ==
    IF idx = {} THEN R(1)
    ELSE LET d == Min(idx) IN RMul(s[d], Product(s, idx \ {d}))

RECURSIVE SumTiny(_, _)
SumTiny(s, idx) ==
    IF idx = {} THEN 0
    ELSE LET d == Min(idx) IN Tiny(s[d]) + SumTiny(s, idx \ {d})

RECURSIVE SumTinySq(_, _)
SumTinySq(s, idx) ==
    IF idx = {} THEN 0
    ELSE LET d == Min(idx) IN Tiny(s[d]) * Tiny(s[d]) + SumTinySq(s, idx \ {d})

(* Every log return is finite: no argument is 0 or +inf. *)
log_finite(lr) == \A d \in DOMAIN lr : IsFinite(lr[d]) /\ lr[d][1] # 0

(* Sign of log_rets.mean(): of ln(product of the arguments). *)
log_mean_sign(lr) ==
    LET c == RCmp(Product(lr, DOMAIN lr), R(1))
    IN  IF c # 0 THEN c ELSE Sgn(SumTiny(lr, DOMAIN lr))

(* log_rets.std() > 1e-9: the arguments differ by more than a tiny factor, *)
(* or the sample variance of the tiny steps exceeds (1e-9 / 1e-10)^2.      *)
log_std_above_limit(lr) ==
    LET n == Cardinality(DOMAIN lr)
        sj == SumTiny(lr, DOMAIN lr)
        sq == SumTinySq(lr, DOMAIN lr)
    IN  \/ \E d, e \in DOMAIN lr : Base(lr[d]) # Base(lr[e])
        \/ n * sq - sj * sj > TinyStepsPerLimit * TinyStepsPerLimit * n * (n - 1)

(* Bug: three log returns are required. *)
metric_sharpe_needs_three(nav) ==
    LET lr == log_rets(nav)
    IN  IF Cardinality(DOMAIN lr) >= 3 /\ log_finite(lr)
        THEN IF log_std_above_limit(lr) THEN SharpeOfSign(log_mean_sign(lr))
             ELSE IF log_mean_sign(lr) = 0 THEN Exactly(R(0))
             ELSE Absent
        ELSE Absent

(* The flat branch tests the mean against the 1e-9 limit, not against 0. *)
metric_sharpe_mean_within_limit(nav) ==
    LET lr == log_rets(nav)
    IN  IF Cardinality(DOMAIN lr) >= 2 /\ log_finite(lr)
        THEN IF log_std_above_limit(lr) THEN SharpeOfSign(log_mean_sign(lr))
             ELSE IF /\ RCmp(Product(lr, DOMAIN lr), R(1)) = 0
                     /\ Abs(SumTiny(lr, DOMAIN lr))
                            <= TinyStepsPerLimit * Cardinality(DOMAIN lr)
                  THEN Exactly(R(0))
             ELSE Absent
        ELSE Absent

metric_sharpe(nav) ==
    LET lr == log_rets(nav)
    IN  IF Cardinality(DOMAIN lr) >= 2 /\ log_finite(lr)
        THEN IF log_std_above_limit(lr) THEN SharpeOfSign(log_mean_sign(lr))
             ELSE IF log_mean_sign(lr) = 0 THEN Exactly(R(0))
             ELSE Absent
        ELSE Absent

metric_max_drawdown(nav) ==
    LET idx == DOMAIN nav
        count == Cardinality({d \in idx : ~IsNaN(nav[d])})
        cummax == [d \in idx |->
                     LET seen == {e \in idx : e <= d /\ ~IsNaN(nav[e])}
                     IN  IF IsNaN(nav[d]) \/ seen = {} THEN NaN
                         ELSE nav[CHOOSE e \in seen :
                                      \A f \in seen : PLe(nav[f], nav[e])]]
        valid == {d \in idx : ~IsNaN(cummax[d]) /\ ~IsNaN(nav[d])
                                /\ RLt(<<1, 1000000000>>, Base(cummax[d]))}
        (* nav / cummax; the drawdown is this ratio - 1 *)
        ratio == [d \in valid |-> np_div(nav[d], cummax[d])]
        lowest == CHOOSE d \in valid : \A e \in valid : PLe(ratio[d], ratio[e])
        max_drawdown_val == RMul(NAbs(RSub(Base(ratio[lowest]), R(1))), R(100))
    IN  IF count > 0 /\ valid # {}
        THEN IF Tiny(ratio[lowest]) = 0 THEN Exactly(max_drawdown_val)
             ELSE Approx(max_drawdown_val)
        ELSE Absent

metric_win_rate(nav) ==
    LET q == nav_ratio(nav)
        daily_arith_rets == {d \in DOMAIN nav : ~IsNaN(q[d])}
        positive_return_days ==
            Cardinality({d \in daily_arith_rets :
                            q[d] = PosInf \/ (IsFinite(q[d]) /\ PLt(R(1), q[d]))})
        total_return_days == Cardinality(daily_arith_rets)
    IN  IF daily_arith_rets # {}
        THEN Exactly(RMul(RDiv(R(positive_return_days), R(total_return_days)), R(100)))
        ELSE Absent

Metrics(c, s, m, w, t) ==
    [kind |-> "Metrics",
     CAGR |-> c, Sharpe |-> s, MaxDrawdown |-> m, WinRate |-> w, Turnover |-> t]

(* Bug: only an empty NAV returns early. *)
summarize_only_empty_short(res) ==
    LET nav == res.equity_curve
        trades == res.trades
    IN  IF DOMAIN nav = {}
        THEN Metrics(Absent, Absent, Absent, Absent, metric_turnover(trades))
        ELSE Metrics(metric_cagr(nav), metric_sharpe(nav), metric_max_drawdown(nav),
                     metric_win_rate(nav), metric_turnover(trades))

(* Bug: a zero starting NAV is a division error instead of an absent CAGR. *)
summarize_zero_start_raises(res) ==
    LET nav == res.equity_curve
        trades == res.trades
    IN  IF Cardinality(DOMAIN nav) < 2
        THEN Metrics(Absent, Absent, Absent, Absent, metric_turnover(trades))
        ELSE IF nav[Min(DOMAIN nav)][1] = 0
        THEN [kind |-> "Raise", exc |-> "ZeroDivisionError"]
        ELSE Metrics(metric_cagr(nav), metric_sharpe(nav), metric_max_drawdown(nav),
                     metric_win_rate(nav), metric_turnover(trades))

summarize(res) ==
    LET nav == res.equity_curve
        trades == res.trades
    IN  IF Cardinality(DOMAIN nav) < 2
        THEN Metrics(Absent, Absent, Absent, Absent, metric_turnover(trades))
        ELSE Metrics(metric_cagr(nav), metric_sharpe(nav), metric_max_drawdown(nav),
                     metric_win_rate(nav), metric_turnover(trades))

(***************************************************************************)
(* strategy.py: sma_crossover_signal                                       *)
(***************************************************************************)
Raise(exc) == [kind |-> "Raise", exc |-> exc]

RECURSIVE Sum(_, _)
Sum(s, idx) ==
    IF idx = {} THEN 0
    ELSE LET d == Min(idx) IN s[d] + Sum(s, idx \ {d})

(* The labels of the window of w observations that ends at d. *)
Window(idx, d, w) ==
    {e \in idx : e <= d /\ Cardinality({f \in idx : e < f /\ f <= d}) < w}

(* s.rolling(window=w).mean(): NaN until w observations are available. *)
rolling_mean(s, w) ==
    [d \in DOMAIN s |->
        IF Cardinality({e \in DOMAIN s : e <= d}) < w THEN NaN
        ELSE RDiv(R(Sum(s, Window(DOMAIN s, d, w))), R(w))]

(* position: 1 where sma_short > sma_long (False on NaN), else 0. *)
raw_position(price, short, long) ==
    LET sma_short == rolling_mean(price, short)
        sma_long == rolling_mean(price, long)
    IN  [d \in DOMAIN price |->
            IF ~IsNaN(sma_short[d]) /\ ~IsNaN(sma_long[d])
               /\ RLt(sma_long[d], sma_short[d])
            THEN 1 ELSE 0]

(* Bug: the signal is not lagged. *)
shift_fill_no_lag(s) == [d \in DOMAIN s |-> s[d]]

(* position.shift(1).fillna(0).astype(int) *)
shift_fill(s) ==
    [d \in DOMAIN s |-> IF d = Min(DOMAIN s) THEN 0 ELSE s[Prev(DOMAIN s, d)]]

sma_crossover_signal(price, short, long) ==
    IF ~isinstance_Series(price) THEN Raise("TypeError")
    ELSE IF DOMAIN price.v = {} THEN Series(<<>>)
    ELSE IF short <= 0 \/ long <= 0 THEN Raise("ValueError")
    ELSE Series(shift_fill(raw_position(price.v, short, long)))

(* Backtester.__init__ *)
Backtester(p, q, r, c) ==
    IF ~isinstance_Series(p) \/ ~isinstance_Series(q) THEN Raise("TypeError")
    ELSE IF r.kind # "None" /\ ~isinstance_Series(r) THEN Raise("TypeError")
    ELSE align_data(p.v, q.v, r, c)

(***************************************************************************)
(* Inputs.                                                                 *)
(***************************************************************************)
PriceVals == {1, 2}
PosVals == {0, 1}
(* Position values the engine accepts without validation. *)
UnvalidatedPosVals == {0, 2}
CostVals == {-10000, 0, 10000, 60000}
NavVals == {-1, 0, 1, 2}
(* NAV values: the whole numbers above and 1 * (1 + 1e-10). *)
NavInputs == {R(n) : n \in NavVals} \cup {<<1, 1, 1>>}
TradeVals == {-1, 0, 1}

(* Annualised percentages whose daily rates are 1 and 1/2. *)
RfVal(d) == IF d % 2 = 1 THEN 36500 ELSE 18250

SeriesOver(Vals) == {Series(f) : f \in UNION {[S -> Vals] : S \in SUBSET Dates}}

PriceInputs == SeriesOver(PriceVals) \cup {NotASeries}
PositionInputs ==
    SeriesOver(PosVals) \cup {Series(f) : f \in [Dates -> UnvalidatedPosVals]} \cup {None}
RfInputs == {None, Series([d \in Dates \ {1} |-> RfVal(d)])}

(* Results handed to summarize directly: NAV and trades on consecutive days. *)
ResultInputs ==
    {BacktestResult(n, [d \in DOMAIN n |-> 0], t) :
        <<n, t>> \in UNION {[1..k -> NavInputs] \X [1..k -> TradeVals] : k \in 0..MaxNavLen}}

NoCall == [called |-> FALSE, short |-> 0, long |-> 0, price |-> None, out |-> None]

InitPipeline ==
    /\ pc = "start"
    /\ prices \in PriceInputs
    /\ positions \in PositionInputs
    /\ rf \in RfInputs
    /\ cost_bps \in CostVals
    /\ result = None

(* The concrete scenario of the specification's section 8. *)
InitScenario ==
    /\ pc = "start"
    /\ prices = Series(<<100, 110, 100, 100>>)
    /\ positions = Series(<<0, 1, 1, 0>>)
    /\ rf = None
    /\ cost_bps = 10
    /\ result = None

InitResult ==
    /\ pc = "ran"
    /\ prices = None
    /\ positions = None
    /\ rf = None
    /\ cost_bps = 0
    /\ result \in ResultInputs

Init ==
    /\ err = ""
    /\ call = NoCall
    /\ bt = None
    /\ metrics = None
    /\ (InitPipeline \/ InitScenario \/ InitResult)

(***************************************************************************)
(* Operations.                                                             *)
(***************************************************************************)
(* positions = sma_crossover_signal(prices, short, long) *)
GenerateSignal(short, long) ==
    /\ pc = "start"
    /\ ~call.called
    /\ positions = None
    /\ LET out == sma_crossover_signal(prices, short, long)
       IN  /\ call' = [called |-> TRUE, short |-> short, long |-> long,
                       price |-> prices, out |-> out]
           /\ IF out.kind = "Raise"
              THEN /\ pc' = "raised"
                   /\ err' = out.exc
                   /\ UNCHANGED positions
              ELSE /\ positions' = out
                   /\ UNCHANGED <<pc, err>>
    /\ UNCHANGED <<prices, rf, cost_bps, bt, result, metrics>>

(* bt = Backtester(prices, positions, rf, cost_bps) *)
Construct ==
    /\ pc = "start"
    /\ LET b == Backtester(prices, positions, rf, cost_bps)
       IN  IF b.kind = "Raise"
           THEN /\ pc' = "raised"
                /\ err' = b.exc
                /\ UNCHANGED bt
           ELSE /\ pc' = "constructed"
                /\ bt' = b
                /\ UNCHANGED err
    /\ UNCHANGED <<prices, positions, rf, cost_bps, call, result, metrics>>

(* result = bt.run() *)
Run ==
    /\ pc = "constructed"
    /\ LET r == run(bt)
       IN  IF r.kind = "Raise"
           THEN /\ pc' = "raised"
                /\ err' = r.exc
                /\ UNCHANGED result
           ELSE /\ pc' = "ran"
                /\ result' = r
                /\ UNCHANGED err
    /\ UNCHANGED <<prices, positions, rf, cost_bps, call, bt, metrics>>

(* metrics = summarize(result) *)
Summarize ==
    /\ pc = "ran"
    /\ LET m == summarize(result)
       IN  IF m.kind = "Raise"
           THEN /\ pc' = "raised"
                /\ err' = m.exc
                /\ UNCHANGED metrics
           ELSE /\ pc' = "summarized"
                /\ metrics' = m
                /\ UNCHANGED err
    /\ UNCHANGED <<prices, positions, rf, cost_bps, call, bt, result>>

Next ==
    \/ \E short, long \in Windows : GenerateSignal(short, long)
    \/ Construct
    \/ Run
    \/ Summarize

Spec == Init /\ [][Next]_vars

(***************************************************************************)
(* Properties.                                                             *)
(***************************************************************************)
Simulated == bt.kind = "Backtester" /\ pc \in {"ran", "summarized"}

(* A date carried by every supplied input of simulate. *)
InAllInputs(d) ==
    /\ d \in DOMAIN prices.v
    /\ d \in DOMAIN positions.v
    /\ rf.kind = "Series" => d \in DOMAIN rf.v

InputDates == DOMAIN prices.v \cup DOMAIN positions.v

(* C1: the index of each of equity_curve, positions and trades returned by *)
(* run is exactly the set of dates present in every supplied input.        *)
C1_Alignment ==
    Simulated =>
        \A d \in InputDates \cup DOMAIN result.equity_curve
                 \cup DOMAIN result.positions \cup DOMAIN result.trades :
            /\ d \in DOMAIN result.equity_curve <=> InAllInputs(d)
            /\ d \in DOMAIN result.positions <=> InAllInputs(d)
            /\ d \in DOMAIN result.trades <=> InAllInputs(d)

C1_Witness ==
    /\ Simulated
    /\ rf.kind = "Series"
    /\ DOMAIN result.equity_curve # {}
    /\ DOMAIN prices.v \ DOMAIN positions.v # {}
    /\ (DOMAIN prices.v \cap DOMAIN positions.v) \ DOMAIN rf.v # {}

(* C2: on a non-empty aligned index the equity curve is exactly 1 and the  *)
(* trade exactly 0 at the first date, whatever is held on that date.       *)
C2_FirstDay ==
    (Simulated /\ DOMAIN result.equity_curve # {}) =>
        LET first == CHOOSE d \in InputDates :
                         InAllInputs(d) /\ \A e \in InputDates : InAllInputs(e) => d <= e
        IN  /\ result.equity_curve[first] = R(1)
            /\ result.trades[first] = 0

C2_Witness ==
    /\ Simulated
    /\ DOMAIN result.equity_curve # {}
    /\ result.positions[Min(DOMAIN result.positions)] = 1
    /\ cost_bps > 0
    /\ rf.kind = "Series"

(* The date just before d among the dates carried by every input. *)
DayBefore(d) ==
    CHOOSE p \in InputDates :
        /\ InAllInputs(p) /\ p < d
        /\ \A e \in InputDates : (InAllInputs(e) /\ e < d) => e <= p

LaterDates == {d \in InputDates : InAllInputs(d) /\ \E e \in InputDates : InAllInputs(e) /\ e < d}

(* net[t] of the claim for cost parameter c, from the inputs of simulate. *)
NetOf(d, c) ==
    LET p == DayBefore(d)
        pos == positions.v[d]
        active == RMul(R(pos), RSub(Norm(prices.v[d], prices.v[p]), R(1)))
        idle == IF rf.kind = "Series"
                THEN RMul(R(1 - pos), Norm(rf.v[d], 36500))
                ELSE R(0)
        cost == RMul(R(Abs(pos - positions.v[p])), Norm(c, 20000))
    IN  RSub(RAdd(active, idle), cost)

(* C3: after the first date equity[t] = equity[t-1] * (1 + net[t]) with    *)
(* net[t] = pos[t]*(price[t]/price[t-1] - 1) + (1 - pos[t])*rf[t]/100/365  *)
(* - |pos[t] - pos[t-1]|*(cost_bps/2)/10000 and trades[t] = pos[t] -       *)
(* pos[t-1]; prices [100,110,100,100], positions [0,1,1,0], cost_bps 10    *)
(* give trades [0,1,0,-1].                                                 *)
C3_Recurrence ==
    Simulated =>
        /\ \A d \in LaterDates :
              /\ result.equity_curve[d] =
                     RMul(result.equity_curve[DayBefore(d)], RAdd(R(1), NetOf(d, cost_bps)))
              /\ result.trades[d] = positions.v[d] - positions.v[DayBefore(d)]
        /\ (prices = Series(<<100, 110, 100, 100>>) /\ positions = Series(<<0, 1, 1, 0>>))
               => result.trades = <<0, 1, 0, -1>>

C3_Witness ==
    /\ Simulated
    /\ prices = Series(<<100, 110, 100, 100>>)
    /\ positions = Series(<<0, 1, 1, 0>>)
    /\ cost_bps = 10
    /\ result.trades = <<0, 1, 0, -1>>
    /\ result.equity_curve = <<R(1), <<2199, 2000>>, <<2199, 2200>>, <<4395801, 4400000>>>>

(* The equity curve of a run on the same inputs with cost parameter c. *)
EquityWithCost(c) == run([bt EXCEPT !.cost_bps = c]).equity_curve

(* C4 as stated: for cost parameters c1 <= c2 and identical other inputs   *)
(* the equity curve of the c2 run is at most that of the c1 run on every   *)
(* date.                                                                   *)
C4_CostMonotone ==
    Simulated =>
        \A c2 \in CostVals :
            cost_bps <= c2 =>
                \A d \in DOMAIN result.equity_curve :
                    RLe(EquityWithCost(c2)[d], result.equity_curve[d])

(* C4 amended: the same, provided no daily growth factor 1 + net[t] of the *)
(* c2 run is negative.                                                     *)
C4_CostMonotoneNonNegative ==
    Simulated =>
        \A c2 \in CostVals :
            (/\ cost_bps <= c2
             /\ \A d \in LaterDates : RLe(R(0), RAdd(R(1), NetOf(d, c2))))
            => \A d \in DOMAIN result.equity_curve :
                   RLe(EquityWithCost(c2)[d], result.equity_curve[d])

C4_Witness ==
    /\ Simulated
    /\ \E c2 \in CostVals :
          /\ cost_bps < c2
          /\ \A d \in LaterDates : RLe(R(0), RAdd(R(1), NetOf(d, c2)))
          /\ \E d \in DOMAIN result.equity_curve :
                 RLt(EquityWithCost(c2)[d], result.equity_curve[d])

(* C5: after simulate and summarize the Turnover metric, when present,     *)
(* lies in [0, 100].                                                       *)
C5_TurnoverBound ==
    (bt.kind = "Backtester" /\ pc = "summarized" /\ metrics.Turnover.present) =>
        /\ RLe(R(0), metrics.Turnover.val)
        /\ RLe(metrics.Turnover.val, R(100))

(* C6: when no date is carried by every input, run signals no error and    *)
(* returns three empty series.                                             *)
C6_EmptyIntersection ==
    (/\ bt.kind = "Backtester"
     /\ pc # "constructed"
     /\ \A d \in InputDates : ~InAllInputs(d))
    => /\ pc # "raised"
       /\ result.kind = "BacktestResult"
       /\ DOMAIN result.equity_curve = {}
       /\ DOMAIN result.positions = {}
       /\ DOMAIN result.trades = {}

C6_Witness ==
    /\ Simulated
    /\ DOMAIN prices.v # {}
    /\ DOMAIN positions.v # {}
    /\ \A d \in InputDates : ~InAllInputs(d)
    /\ result = BacktestResult(<<>>, <<>>, <<>>)

(* C7: with fewer than 2 NAV points CAGR, Sharpe, MaxDrawdown and WinRate  *)
(* are absent, and Turnover is present, equal to                           *)
(* sum(|trades|) / len(trades) * 100, iff trades is non-empty.             *)
C7_ShortCurve ==
    (pc = "summarized" /\ Cardinality(DOMAIN result.equity_curve) < 2) =>
        /\ ~metrics.CAGR.present
        /\ ~metrics.Sharpe.present
        /\ ~metrics.MaxDrawdown.present
        /\ ~metrics.WinRate.present
        /\ metrics.Turnover.present <=> DOMAIN result.trades # {}
        /\ metrics.Turnover.present =>
               \E n \in 0..Cardinality(DOMAIN result.trades) :
                   /\ n = Sum([d \in DOMAIN result.trades |-> Abs(result.trades[d])],
                              DOMAIN result.trades)
                   /\ metrics.Turnover.val =
                          Norm(100 * n, Cardinality(DOMAIN result.trades))

C7_Witness ==
    /\ pc = "summarized"
    /\ Cardinality(DOMAIN result.equity_curve) = 1
    /\ metrics.Turnover.present

(* C8: a NAV series of length >= 3 whose values are all equal and non-zero *)
(* has a Sharpe ratio that is present and exactly 0.                       *)
C8_FlatSharpe ==
    (/\ pc = "summarized"
     /\ Cardinality(DOMAIN result.equity_curve) >= 3
     /\ \A d, e \in DOMAIN result.equity_curve :
            result.equity_curve[d] = result.equity_curve[e]
     /\ \A d \in DOMAIN result.equity_curve : result.equity_curve[d][1] # 0)
    => /\ metrics.Sharpe.present
       /\ metrics.Sharpe.exact
       /\ metrics.Sharpe.val = R(0)

C8_Witness ==
    /\ pc = "summarized"
    /\ Cardinality(DOMAIN result.equity_curve) >= 3
    /\ \A d \in DOMAIN result.equity_curve : result.equity_curve[d] = R(-1)
    /\ metrics.Sharpe = Exactly(R(0))

(* C9: for a series-shaped price input a window length that is not         *)
(* positive makes the signal generator raise ValueError.                   *)
C9_InvalidWindow ==
    (/\ call.called
     /\ isinstance_Series(call.price)
     /\ (call.short <= 0 \/ call.long <= 0))
    => call.out = Raise("ValueError")

(* The last w dates of idx up to and including p. *)
LastDates(idx, p, w) ==
    CHOOSE W \in SUBSET idx :
        /\ Cardinality(W) = w
        /\ \A e \in W : e <= p
        /\ \A f \in idx \ W : f <= p => \A e \in W : f < e

(* Both averages are defined at p and the short one is strictly greater. *)
CrossedAt(price, p, short, long) ==
    LET seen == Cardinality({e \in DOMAIN price : e <= p})
    IN  /\ seen >= short
        /\ seen >= long
        /\ long * Sum(price, LastDates(DOMAIN price, p, short))
               > short * Sum(price, LastDates(DOMAIN price, p, long))

(* C10: for non-empty prices and positive windows the signal has the index *)
(* of the prices, values in {0, 1}, 0 at the first date, and at each later *)
(* date 1 iff at the date before both averages were defined and the short  *)
(* one was strictly greater than the long one.                             *)
C10_LaggedSignal ==
    (/\ call.called
     /\ isinstance_Series(call.price)
     /\ DOMAIN call.price.v # {}
     /\ call.short > 0
     /\ call.long > 0)
    => /\ call.out.kind = "Series"
       /\ DOMAIN call.out.v = DOMAIN call.price.v
       /\ \A d \in DOMAIN call.price.v :
              LET earlier == {e \in DOMAIN call.price.v : e < d}
              IN  /\ call.out.v[d] \in {0, 1}
                  /\ earlier = {} => call.out.v[d] = 0
                  /\ earlier # {} =>
                         (call.out.v[d] = 1 <=>
                              CrossedAt(call.price.v,
                                        CHOOSE p \in earlier : \A e \in earlier : e <= p,
                                        call.short, call.long))

C10_Witness ==
    /\ call.called
    /\ call.out.kind = "Series"
    /\ call.short < call.long
    /\ \E d \in DOMAIN call.out.v : call.out.v[d] = 1
    /\ \E d \in DOMAIN call.out.v : d # Min(DOMAIN call.out.v) /\ call.out.v[d] = 0

(* C11: when the position is 0 on every aligned date and no risk-free      *)
(* series is supplied, the equity curve is 1 on every date, for any prices *)
(* and any cost_bps.                                                       *)
C11_FlatStaysAtOne ==
    (/\ Simulated
     /\ rf.kind = "None"
     /\ \A d \in InputDates : InAllInputs(d) => positions.v[d] = 0)
    => \A d \in DOMAIN result.equity_curve : result.equity_curve[d] = R(1)

C11_Witness ==
    /\ Simulated
    /\ rf.kind = "None"
    /\ cost_bps # 0
    /\ \A d \in InputDates : InAllInputs(d) => positions.v[d] = 0
    /\ \E d \in DOMAIN positions.v : positions.v[d] # 0
    /\ \E d, e \in DOMAIN result.equity_curve : prices.v[d] # prices.v[e]
    /\ \A d \in DOMAIN result.equity_curve : result.equity_curve[d] = R(1)

(* The log returns of the summarized NAV, from its consecutive values: the *)
(* dates whose NAV and previous NAV are non-zero with the same sign.       *)
NavDates == DOMAIN result.equity_curve
NavBefore(d) == result.equity_curve[CHOOSE p \in NavDates :
                                        p < d /\ \A e \in NavDates : e < d => e <= p]
LogDates ==
    {d \in NavDates : /\ \E e \in NavDates : e < d
                      /\ Sgn(result.equity_curve[d][1]) * Sgn(NavBefore(d)[1]) > 0}

(* No log return is infinite: no step from a non-zero NAV to 0, nor from 0 *)
(* to a positive NAV.                                                      *)
NoInfiniteLog ==
    \A d \in NavDates :
        (\E e \in NavDates : e < d) =>
            /\ ~(result.equity_curve[d][1] = 0 /\ NavBefore(d)[1] # 0)
            /\ ~(result.equity_curve[d][1] > 0 /\ NavBefore(d)[1] = 0)

(* ln(NAV[t] / NAV[t-1]) = ln(LogBase) + LogSteps * 1e-10 *)
LogBase(d) == RDiv(Base(result.equity_curve[d]), Base(NavBefore(d)))
LogSteps(d) == Tiny(result.equity_curve[d]) - Tiny(NavBefore(d))

StepSum == Sum([d \in LogDates |-> LogSteps(d)], LogDates)
StepSquares == Sum([d \in LogDates |-> LogSteps(d) * LogSteps(d)], LogDates)
BaseProduct == Product([d \in LogDates |-> LogBase(d)], LogDates)

(* The sample deviation of the log returns is within 1e-9 of zero. *)
StdNearZero ==
    /\ \A d, e \in LogDates : LogBase(d) = LogBase(e)
    /\ Cardinality(LogDates) * StepSquares - StepSum * StepSum
           <= 100 * Cardinality(LogDates) * (Cardinality(LogDates) - 1)

MeanIsZero == BaseProduct = R(1) /\ StepSum = 0
(* The mean of the log returns is within 1e-9 of zero. *)
MeanNearZero == BaseProduct = R(1) /\ Abs(StepSum) <= 10 * Cardinality(LogDates)

SharpeCase == pc = "summarized" /\ Cardinality(LogDates) >= 2 /\ NoInfiniteLog

(* C13 as stated: with at least 2 log returns, the Sharpe ratio is exactly *)
(* 0 whenever mean and deviation are both within 1e-9 of zero, and is      *)
(* absent only when the deviation is near zero and the mean is farther     *)
(* than 1e-9 from zero.                                                    *)
C13_NearZeroMean ==
    SharpeCase =>
        /\ (StdNearZero /\ MeanNearZero) => metrics.Sharpe = Exactly(R(0))
        /\ ~metrics.Sharpe.present => (StdNearZero /\ ~MeanNearZero)

(* C13 amended: the Sharpe ratio is exactly 0 whenever the deviation is    *)
(* within 1e-9 of zero and the mean is exactly zero, and is absent exactly *)
(* when the deviation is within 1e-9 of zero and the mean is not zero,     *)
(* however small.                                                          *)
C13_ExactZeroMean ==
    SharpeCase =>
        /\ (StdNearZero /\ MeanIsZero) => metrics.Sharpe = Exactly(R(0))
        /\ ~metrics.Sharpe.present <=> (StdNearZero /\ ~MeanIsZero)

C13_Witness ==
    /\ SharpeCase
    /\ StdNearZero
    /\ MeanNearZero
    /\ ~MeanIsZero
    /\ ~metrics.Sharpe.present

MetricFields == {"CAGR", "Sharpe", "MaxDrawdown", "WinRate", "Turnover"}
FirstNav == result.equity_curve[Min(NavDates)]
LastNav == result.equity_curve[Max(NavDates)]

====
